---- MODULE Spec2Model ----
(***************************************************************************)
(* Model of src/src/ficsitApp.ts: the ficsit.app registry client with its  *)
(* time-boxed request cache (cachedFetch), the debug-only temporary mod    *)
(* overlay (useTempMods, tempMods) and the version selection helpers.      *)
(*                                                                         *)
(* Conventions.                                                            *)
(*  - A semantic version string "a.b.c" is the triple <<a, b, c>>; semver's *)
(*    compare and satisfies are modelled on release versions.              *)
(*  - A request identity (`getMod_${modID}` ...) is the triple             *)
(*    <<operation, modID, version>>.                                       *)
(*  - A temporary mod is an object owned by the caller; the module keeps   *)
(*    references to it.  TempObjs are the caller's objects, tempID(o) the  *)
(*    object's id field and versionsOf[o] its (mutable) versions array.    *)
(*  - An optional value (T | undefined) is a sequence of length <= 1.      *)
(***************************************************************************)
EXTENDS Integers, Sequences, FiniteSets, TLC

VARIABLES
    useTempMods,  \* the debug flag
    tempMods,     \* the overlay: a sequence of references to caller objects
    versionsOf,   \* the versions array of every caller object
    cachedFetch,  \* request identity -> [set, time, data]; orig is history: data as written
    now,          \* Date.now(), in milliseconds
    ticks,        \* how often the clock has advanced
    calls,        \* per caller: the call in progress or last made; start, issued and
                  \* debug are history: Date.now() and useTempMods at the call, and
                  \* whether it sent a request
    ret,          \* per caller: how the last call ended
    lastCall,     \* history: the overlay operation the last step made, if it was one
    addedOf       \* history: every caller object's versions in the order they were added

vars == <<useTempMods, tempMods, versionsOf, cachedFetch, now, ticks, calls, ret, lastCall, addedOf>>

---------------------------------------------------------------------------
(* Bounds of the model. *)

MaxTicks == 2
MaxTemp == 2
MaxLen == 2

---------------------------------------------------------------------------
(* Program constants. *)

fetchCooldown == 5 * 60 * 1000

\* one second of Date.now()
OneSecond == fetchCooldown \div 300

API_URL == "https://api.ficsit.app"

SMLModID == "SML"

BootstrapperModID == "bootstrapper"

minSMLVersion == <<2, 0, 0>>

SMLFetchFloor == <<2, 0, 0>>

---------------------------------------------------------------------------
(* Semantic versions and constraints. *)

NoVersion == <<0, 0, 0>>

Versions == {<<1, 0, 0>>, <<2, 0, 0>>, <<2, 1, 0>>}

\* semver.compare: -1, 0 or 1
compare(a, b) ==
    IF a[1] # b[1] THEN (IF a[1] < b[1] THEN -1 ELSE 1)
    ELSE IF a[2] # b[2] THEN (IF a[2] < b[2] THEN -1 ELSE 1)
    ELSE IF a[3] # b[3] THEN (IF a[3] < b[3] THEN -1 ELSE 1)
    ELSE 0

\* semver.satisfies(version, range) for a single comparator [op, version]:
\* ">=2.1.0" is [op |-> ">=", version |-> <<2, 1, 0>>]
satisfies(v, c) ==
    CASE c.op = ">=" -> compare(v, c.version) >= 0
      [] c.op = "<"  -> compare(v, c.version) < 0
      [] c.op = "="  -> compare(v, c.version) = 0
      [] OTHER       -> FALSE

\* utils.versionSatisfiesAll: every constraint of the array holds
versionSatisfiesAll(v, versionConstraints) ==
    \A i \in 1..Len(versionConstraints) : satisfies(v, versionConstraints[i])

RECURSIVE InsertSorted(_, _)
InsertSorted(x, s) ==
    IF s = <<>> THEN <<x>>
    ELSE IF -compare(x.version, Head(s).version) < 0
         THEN <<x>> \o s
         ELSE <<Head(s)>> \o InsertSorted(x, Tail(s))

RECURSIVE SortFrom(_, _)
SortFrom(s, acc) ==
    IF s = <<>> THEN acc ELSE SortFrom(Tail(s), InsertSorted(Head(s), acc))

\* sortDescending with the comparator's minus sign lost: ascending
sortAscending(s) ==
    LET descending == SortFrom(s, <<>>)
    IN  [i \in 1..Len(s) |-> descending[Len(s) + 1 - i]]

\* versions.sort((a, b) => -compare(a.version, b.version)): stable, descending
sortDescending(s) == SortFrom(s, <<>>)

Range(s) == { s[i] : i \in 1..Len(s) }

SeqsUpTo(S, n) == UNION { [1..k -> S] : k \in 0..n }

---------------------------------------------------------------------------
(* The temporary mod overlay. *)

ModIDs == {"A", "B"}

\* The caller's mod objects: two with id "A", one with id "B".
TempObjs == {"m1", "m2", "m3"}

NoObj == "none"

tempID(o) == IF o = "m3" THEN "B" ELSE "A"

\* FicsitAppVersion, reduced to the fields the module reads
VersionRecord(modID, v) == [mod_id |-> modID, version |-> v]

\* tempMods.find((mod) => mod.id === modID): the index of the first match, 0 for undefined
find(mods, modID) ==
    IF \E i \in 1..Len(mods) : tempID(mods[i]) = modID
    THEN CHOOSE i \in 1..Len(mods) :
            /\ tempID(mods[i]) = modID
            /\ \A j \in 1..(i - 1) : tempID(mods[j]) # modID
    ELSE 0

\* tempMods.some((mod) => mod.id === modID)
some(mods, modID) == \E i \in 1..Len(mods) : tempID(mods[i]) = modID

\* utils.removeArrayElementWhere: every element the condition holds of is removed.
\* The condition is given as the set of the elements it holds of.
removeArrayElementWhere(array, condition) ==
    LET Keep(e) == e \notin condition IN SelectSeq(array, Keep)

NoOverlayCall == [op |-> "none", obj |-> NoObj, modID |-> "", version |-> NoVersion]

OverlayCall(op, obj, modID, version) ==
    [op |-> op, obj |-> obj, modID |-> modID, version |-> version]

CallsUnchanged == UNCHANGED <<cachedFetch, now, ticks, calls, ret>>

\* setUseTempMods that empties the overlay when it disables the flag
setUseTempModsClearing(enable) ==
    /\ useTempMods' = enable
    /\ tempMods' = IF enable THEN tempMods ELSE <<>>
    /\ UNCHANGED <<versionsOf, addedOf>>
    /\ CallsUnchanged

setUseTempMods(enable) ==
    /\ useTempMods' = enable
    /\ UNCHANGED <<tempMods, versionsOf, addedOf>>
    /\ CallsUnchanged

getUseTempMods(use) ==
    /\ useTempMods' = use
    /\ UNCHANGED <<tempMods, versionsOf, addedOf>>
    /\ CallsUnchanged

\* addTempMod without the check of the debug flag
addTempModUnguarded(mod) ==
    /\ Len(tempMods) < MaxTemp
    /\ tempMods' = Append(tempMods, mod)
    /\ UNCHANGED <<useTempMods, versionsOf, addedOf>>
    /\ CallsUnchanged

addTempMod(mod) ==
    /\ Len(tempMods) < MaxTemp
    /\ tempMods' = IF useTempMods THEN Append(tempMods, mod) ELSE tempMods
    /\ UNCHANGED <<useTempMods, versionsOf, addedOf>>
    /\ CallsUnchanged

addTempModVersion(version) ==
    LET i == find(tempMods, version.mod_id) IN
    /\ i # 0 => Len(versionsOf[tempMods[i]]) < MaxLen
    /\ versionsOf' =
          IF useTempMods /\ i # 0
          THEN [versionsOf EXCEPT ![tempMods[i]] = Append(@, version)]
          ELSE versionsOf
    /\ addedOf' =
          IF useTempMods /\ i # 0
          THEN [addedOf EXCEPT ![tempMods[i]] = Append(@, version)]
          ELSE addedOf
    /\ UNCHANGED <<useTempMods, tempMods>>
    /\ CallsUnchanged

removeTempMod(modID) ==
    LET Matches == { mod \in TempObjs : tempID(mod) = modID } IN
    /\ tempMods' = IF useTempMods THEN removeArrayElementWhere(tempMods, Matches) ELSE tempMods
    /\ UNCHANGED <<useTempMods, versionsOf, addedOf>>
    /\ CallsUnchanged

removeTempModVersion(modID, version) ==
    LET i == find(tempMods, modID)
        Matches == { modVersion \in Range(versionsOf[tempMods[i]]) : modVersion.version = version }
    IN
    /\ versionsOf' =
          IF useTempMods /\ i # 0
          THEN [versionsOf EXCEPT ![tempMods[i]] = removeArrayElementWhere(@, Matches)]
          ELSE versionsOf
    /\ addedOf' =
          IF useTempMods /\ i # 0
          THEN [addedOf EXCEPT ![tempMods[i]] = removeArrayElementWhere(@, Matches)]
          ELSE addedOf
    /\ UNCHANGED <<useTempMods, tempMods>>
    /\ CallsUnchanged

---------------------------------------------------------------------------
(* The request cache. *)

NoData == <<>>

AvailableModsID == <<"getAvailableMods", "", NoVersion>>

SMLVersionsID == <<"getSMLVersions", "", NoVersion>>

BootstrapperVersionsID == <<"getBootstrapperVersions", "", NoVersion>>

ModID_(modID) == <<"getMod", modID, NoVersion>>

ModVersionsID(modID) == <<"getModVersions", modID, NoVersion>>

DownloadLinkID(modID, version) == <<"getModDownloadLink", modID, version>>

RequestIDs ==
    {AvailableModsID, SMLVersionsID, BootstrapperVersionsID}
    \cup { ModID_(m) : m \in ModIDs }
    \cup { ModVersionsID(m) : m \in ModIDs }
    \cup { DownloadLinkID(m, v) : m \in ModIDs, v \in Versions }

NoFetch == [set |-> FALSE, time |-> 0, data |-> NoData, orig |-> NoData]

\* cooldownPassed with >= for >: an entry is stale from the cooldown's last millisecond on
cooldownPassedFromEqual(action) ==
    IF cachedFetch[action].set
    THEN now - cachedFetch[action].time >= fetchCooldown
    ELSE TRUE

\* cooldownPassed with the comparison turned around
cooldownPassedInverted(action) ==
    IF cachedFetch[action].set
    THEN now - cachedFetch[action].time < fetchCooldown
    ELSE TRUE

\* Date.now() - cachedFetch[action].time > fetchCooldown, true when there is no entry
cooldownPassed(action) ==
    IF cachedFetch[action].set
    THEN now - cachedFetch[action].time > fetchCooldown
    ELSE TRUE

\* cachedFetch[action]?.data of the cache cf
getCache(cf, action) == cf[action].data

\* setCache that keeps an entry that is already there
setCacheIfAbsent(cf, action, data) ==
    IF cf[action].set
    THEN cf
    ELSE [cf EXCEPT ![action] = [set |-> TRUE, time |-> now, data |-> data, orig |-> data]]

\* the cache cf after cachedFetch[action] = { time: Date.now(), data }
setCache(cf, action, data) ==
    [cf EXCEPT ![action] = [set |-> TRUE, time |-> now, data |-> data, orig |-> data]]

---------------------------------------------------------------------------
(* Replies of fiscitApiQuery and how a function ends. *)

\* What the request gave: a transport failure (the request rejects or the body is
\* not JSON), a body whose data is null (an errors list), or a body with data.
NoRes == [kind |-> "none", body |-> NoData]

TransportFailure == [kind |-> "transport", body |-> NoData]

NullData == [kind |-> "nodata", body |-> NoData]

Data(body) == [kind |-> "data", body |-> body]

\* fiscitApiQuery whose catch returns nothing instead of { errors }
fiscitApiQueryNoErrors(res) ==
    CASE res.kind \in {"transport", "nodata"} ->
            [errors |-> FALSE, null |-> TRUE, data |-> NoData]
      [] OTHER -> [errors |-> FALSE, null |-> FALSE, data |-> res.body]

\* fiscitApiQuery: response.data, or { errors } when the request or the parse throws
fiscitApiQuery(res) ==
    CASE res.kind = "transport" -> [errors |-> TRUE, null |-> FALSE, data |-> NoData]
      [] res.kind = "nodata"    -> [errors |-> FALSE, null |-> TRUE, data |-> NoData]
      [] OTHER                  -> [errors |-> FALSE, null |-> FALSE, data |-> res.body]

\* How a function ends: kind "ok" (it returns val) or the failure it throws; src says
\* where val came from, obj the caller object it is (or belongs to), cf and vo the
\* cache and the caller objects' arrays it leaves.  arr is history: the array a
\* selection function read, as it read it.
Returns(val, src, obj, cf) ==
    [kind |-> "ok", val |-> val, src |-> src, obj |-> obj, arr |-> NoData,
     cf |-> cf, vo |-> versionsOf]

Throws(kind, cf) ==
    [kind |-> kind, val |-> NoData, src |-> "none", obj |-> NoObj, arr |-> NoData,
     cf |-> cf, vo |-> versionsOf]

\* return getCache(requestID)
ReturnsCache(requestID, src, cf) == Returns(getCache(cf, requestID), src, NoObj, cf)

\* res.errors of a reply: the NetworkError, or the TypeError of reading null.errors
ThrowsErrors(q, cf) == Throws(IF q.null THEN "TypeError" ELSE "NetworkError", cf)

---------------------------------------------------------------------------
(* The registry client.  Every function is given as the whole of its body: *)
(* `fetched` says whether cooldownPassed(requestID) held when it was       *)
(* called, `res` is what the request gave (read only when fetched), and cf *)
(* is the cache it runs on.                                                *)

\* FicsitAppMod as the service sends it, and a reference to a temporary mod
LiveMod(id, versions) == [temp |-> FALSE, obj |-> NoObj, id |-> id, versions |-> versions]

TempRef(o) == [temp |-> TRUE, obj |-> o, id |-> tempID(o), versions |-> NoData]

\* mod.versions of an element of a mod list, with the caller objects' arrays vo
modVersions(mod, vo) == IF mod.temp THEN vo[mod.obj] ELSE mod.versions

\* FicsitAppSMLVersion and FicsitAppBootstrapperVersion, reduced to the version
LoaderVersion(v) == [version |-> v]

\* resGetMods.push(...tempMods)
pushTempMods(resGetMods) == resGetMods \o [i \in 1..Len(tempMods) |-> TempRef(tempMods[i])]

\* getModDownloadLink without the failure kept for temporary mods
getModDownloadLinkNoTemp(modID, version, fetched, res, cf) ==
    LET requestID == DownloadLinkID(modID, version)
        q == fiscitApiQuery(res)
    IN  IF ~fetched THEN ReturnsCache(requestID, "cache", cf)
        ELSE IF q.errors \/ q.null THEN ThrowsErrors(q, cf)
        ELSE IF q.data.getMod # <<>> /\ q.data.getMod[1].version # <<>>
             THEN ReturnsCache(requestID, "fetch",
                    setCache(cf, requestID, <<API_URL, q.data.getMod[1].version[1].link>>))
        ELSE Throws("ModNotFound", cf)

getModDownloadLink(modID, version, fetched, res, cf) ==
    LET requestID == DownloadLinkID(modID, version)
        q == fiscitApiQuery(res)
    IN  IF ~fetched THEN ReturnsCache(requestID, "cache", cf)
        ELSE IF q.errors \/ q.null THEN ThrowsErrors(q, cf)
        ELSE IF q.data.getMod # <<>> /\ q.data.getMod[1].version # <<>>
             THEN ReturnsCache(requestID, "fetch",
                    setCache(cf, requestID, <<API_URL, q.data.getMod[1].version[1].link>>))
        ELSE IF some(tempMods, modID) THEN Throws("TempModNoLink", cf)
        ELSE Throws("ModNotFound", cf)

\* getAvailableMods that, when the entry was written while it waited for its reply,
\* leaves the entry and returns it
getAvailableModsNoOverwrite(fetched, res, cf) ==
    LET requestID == AvailableModsID
        q == fiscitApiQuery(res)
    IN  IF ~fetched THEN ReturnsCache(requestID, "cache", cf)
        ELSE IF q.errors \/ q.null THEN ThrowsErrors(q, cf)
        ELSE IF cf[requestID].set /\ now - cf[requestID].time <= fetchCooldown
             THEN ReturnsCache(requestID, "fetch", cf)
        ELSE LET resGetMods == IF useTempMods THEN pushTempMods(q.data.mods) ELSE q.data.mods
             IN  ReturnsCache(requestID, "fetch", setCache(cf, requestID, resGetMods))

getAvailableMods(fetched, res, cf) ==
    LET requestID == AvailableModsID
        q == fiscitApiQuery(res)
    IN  IF ~fetched THEN ReturnsCache(requestID, "cache", cf)
        ELSE IF q.errors \/ q.null THEN ThrowsErrors(q, cf)
        ELSE LET resGetMods == IF useTempMods THEN pushTempMods(q.data.mods) ELSE q.data.mods
             IN  ReturnsCache(requestID, "fetch", setCache(cf, requestID, resGetMods))

\* getMod without the look into the temporary mods
getModNoOverlay(modID, fetched, res, cf) ==
    LET requestID == ModID_(modID)
        q == fiscitApiQuery(res)
    IN  IF ~fetched THEN ReturnsCache(requestID, "cache", cf)
        ELSE IF q.errors \/ q.null THEN ThrowsErrors(q, cf)
        ELSE IF q.data.getMod = <<>> THEN Throws("ModNotFound", cf)
        ELSE ReturnsCache(requestID, "fetch", setCache(cf, requestID, q.data.getMod[1]))

\* getMod that puts the temporary mod it returns into the cache
getModCachingOverlay(modID, fetched, res, cf) ==
    LET requestID == ModID_(modID)
        q == fiscitApiQuery(res)
        tempMod == find(tempMods, modID)
    IN  IF ~fetched THEN ReturnsCache(requestID, "cache", cf)
        ELSE IF q.errors \/ q.null THEN ThrowsErrors(q, cf)
        ELSE IF q.data.getMod = <<>>
             THEN IF useTempMods /\ tempMod # 0
                  THEN Returns(TempRef(tempMods[tempMod]), "overlay", tempMods[tempMod],
                               setCache(cf, requestID, TempRef(tempMods[tempMod])))
                  ELSE Throws("ModNotFound", cf)
        ELSE ReturnsCache(requestID, "fetch", setCache(cf, requestID, q.data.getMod[1]))

getMod(modID, fetched, res, cf) ==
    LET requestID == ModID_(modID)
        q == fiscitApiQuery(res)
        tempMod == find(tempMods, modID)
    IN  IF ~fetched THEN ReturnsCache(requestID, "cache", cf)
        ELSE IF q.errors \/ q.null THEN ThrowsErrors(q, cf)
        ELSE IF q.data.getMod = <<>>
             THEN IF useTempMods /\ tempMod # 0
                  THEN Returns(TempRef(tempMods[tempMod]), "overlay", tempMods[tempMod], cf)
                  ELSE Throws("ModNotFound", cf)
        ELSE ReturnsCache(requestID, "fetch", setCache(cf, requestID, q.data.getMod[1]))

\* getModVersions that answers a failed request with the entry it has
getModVersionsStaleOnError(modID, fetched, res, cf) ==
    LET requestID == ModVersionsID(modID)
        q == fiscitApiQuery(res)
        tempMod == find(tempMods, modID)
    IN  IF ~fetched THEN ReturnsCache(requestID, "cache", cf)
        ELSE IF q.errors \/ q.null
             THEN IF cf[requestID].set THEN ReturnsCache(requestID, "cache", cf)
                  ELSE ThrowsErrors(q, cf)
        ELSE IF q.data.getMod # <<>>
             THEN ReturnsCache(requestID, "fetch", setCache(cf, requestID, q.data.getMod[1].versions))
        ELSE IF useTempMods /\ tempMod # 0
             THEN Returns(versionsOf[tempMods[tempMod]], "overlay", tempMods[tempMod], cf)
        ELSE Throws("ModNotFound", cf)

getModVersions(modID, fetched, res, cf) ==
    LET requestID == ModVersionsID(modID)
        q == fiscitApiQuery(res)
        tempMod == find(tempMods, modID)
    IN  IF ~fetched THEN ReturnsCache(requestID, "cache", cf)
        ELSE IF q.errors \/ q.null THEN ThrowsErrors(q, cf)
        ELSE IF q.data.getMod # <<>>
             THEN ReturnsCache(requestID, "fetch", setCache(cf, requestID, q.data.getMod[1].versions))
        ELSE IF useTempMods /\ tempMod # 0
             THEN Returns(versionsOf[tempMods[tempMod]], "overlay", tempMods[tempMod], cf)
        ELSE Throws("ModNotFound", cf)

\* versions.sort(...); return versions[0], where versions is the array r returned:
\* the cached array of requestID or a caller object's array, sorted in place
sortAndTakeFirst(r, requestID) ==
    LET sorted == sortDescending(r.val)
        first == IF sorted = <<>> THEN <<>> ELSE <<sorted[1]>>
    IN  IF r.kind # "ok" THEN r
        ELSE IF r.src = "overlay"
             THEN [r EXCEPT !.val = first, !.arr = r.val,
                            !.vo = [r.vo EXCEPT ![r.obj] = sorted]]
        ELSE [r EXCEPT !.val = first, !.arr = r.val,
                       !.cf = [r.cf EXCEPT ![requestID].data = sorted]]

getModLatestVersion(modID, fetched, res, cf) ==
    sortAndTakeFirst(getModVersions(modID, fetched, res, cf), ModVersionsID(modID))

\* the forEach of findVersionMatchingAll: the first version that satisfies all
firstMatching(versions, versionConstraints) ==
    LET matching == { i \in 1..Len(versions) :
                        versionSatisfiesAll(versions[i].version, versionConstraints) }
    IN  IF matching = {} THEN <<>>
        ELSE <<versions[CHOOSE i \in matching : \A j \in matching : i <= j].version>>

findVersionMatchingAll(modID, versionConstraints, fetched, res, cf) ==
    LET modInfo == getMod(modID, fetched, res, cf)
    IN  IF modInfo.kind # "ok" THEN modInfo
        ELSE [modInfo EXCEPT
                !.val = firstMatching(modVersions(modInfo.val, modInfo.vo), versionConstraints),
                !.arr = modVersions(modInfo.val, modInfo.vo)]

\* getAvailableSMLVersions without the filter of the versions SMManager supports
getAvailableSMLVersionsUnfiltered(fetched, res, cf) ==
    LET requestID == SMLVersionsID
        q == fiscitApiQuery(res)
    IN  IF ~fetched THEN ReturnsCache(requestID, "cache", cf)
        ELSE IF q.errors \/ q.null THEN ThrowsErrors(q, cf)
        ELSE ReturnsCache(requestID, "fetch", setCache(cf, requestID, q.data.sml_versions))

getAvailableSMLVersions(fetched, res, cf) ==
    LET requestID == SMLVersionsID
        q == fiscitApiQuery(res)
        Compatible(version) == satisfies(version.version, [op |-> ">=", version |-> SMLFetchFloor])
    IN  IF ~fetched THEN ReturnsCache(requestID, "cache", cf)
        ELSE IF q.errors \/ q.null THEN ThrowsErrors(q, cf)
        ELSE ReturnsCache(requestID, "fetch",
                setCache(cf, requestID, SelectSeq(q.data.sml_versions, Compatible)))

getAvailableBootstrapperVersions(fetched, res, cf) ==
    LET requestID == BootstrapperVersionsID
        q == fiscitApiQuery(res)
    IN  IF ~fetched THEN ReturnsCache(requestID, "cache", cf)
        ELSE IF q.errors \/ q.null THEN ThrowsErrors(q, cf)
        ELSE ReturnsCache(requestID, "fetch", setCache(cf, requestID, q.data.bootstrap_versions))

\* versions.find((v) => v.version === version)
findVersion(r, version) ==
    LET matching == { i \in 1..Len(r.val) : r.val[i].version = version }
    IN  IF r.kind # "ok" THEN r
        ELSE [r EXCEPT !.val = IF matching = {} THEN <<>>
                                ELSE <<r.val[CHOOSE i \in matching : \A j \in matching : i <= j]>>,
                       !.arr = r.val]

getSMLVersionInfo(version, fetched, res, cf) ==
    findVersion(getAvailableSMLVersions(fetched, res, cf), version)

getLatestSMLVersion(fetched, res, cf) ==
    sortAndTakeFirst(getAvailableSMLVersions(fetched, res, cf), SMLVersionsID)

getBootstrapperVersionInfo(version, fetched, res, cf) ==
    findVersion(getAvailableBootstrapperVersions(fetched, res, cf), version)

getLatestBootstrapperVersion(fetched, res, cf) ==
    sortAndTakeFirst(getAvailableBootstrapperVersions(fetched, res, cf), BootstrapperVersionsID)

\* matchingVersions without the filter
matchingVersionsUnfiltered(versions, versionConstraints) ==
    [i \in 1..Len(versions) |-> versions[i].version]

\* .filter(versionSatisfiesAll).map((v) => v.version)
matchingVersions(versions, versionConstraints) ==
    LET Matches(v) == versionSatisfiesAll(v.version, versionConstraints)
        kept == SelectSeq(versions, Matches)
    IN  [i \in 1..Len(kept) |-> kept[i].version]

\* .filter((smlVersion) => satisfies(smlVersion.version, `>=${minSMLVersion}`))
supportedSMLVersions(smlVersions) ==
    LET Supported(v) == satisfies(v.version, [op |-> ">=", version |-> minSMLVersion])
    IN  SelectSeq(smlVersions, Supported)

findAllVersionsMatchingAll(modID, versionConstraints, fetched, res, cf) ==
    LET r == IF modID = SMLModID THEN getAvailableSMLVersions(fetched, res, cf)
             ELSE IF modID = BootstrapperModID THEN getAvailableBootstrapperVersions(fetched, res, cf)
             ELSE getMod(modID, fetched, res, cf)
    IN  IF r.kind # "ok" THEN r
        ELSE IF modID = SMLModID
             THEN [r EXCEPT !.val = matchingVersions(supportedSMLVersions(r.val), versionConstraints),
                            !.arr = r.val]
        ELSE IF modID = BootstrapperModID
             THEN [r EXCEPT !.val = matchingVersions(r.val, versionConstraints), !.arr = r.val]
        ELSE [r EXCEPT !.val = matchingVersions(modVersions(r.val, r.vo), versionConstraints),
                       !.arr = modVersions(r.val, r.vo)]

---------------------------------------------------------------------------
(* Calls.  A call runs to its await (Call) and, when the request's reply   *)
(* arrives, from there to its end (Resume); a call that finds its cache    *)
(* entry fresh runs to its end at once.                                    *)

Procs == {"c1", "c2"}

NoRet == [kind |-> "none", val |-> NoData, src |-> "none", obj |-> NoObj,
          arr |-> NoData, res |-> NoRes]

NoCall == [pc |-> "idle", op |-> "none", modID |-> "", version |-> NoVersion,
           constraints |-> <<>>, start |-> 0, issued |-> FALSE, debug |-> FALSE]

\* The request identity a function reads and writes
RequestIDOf(op, modID, version) ==
    CASE op = "getAvailableMods" -> AvailableModsID
      [] op = "getModDownloadLink" -> DownloadLinkID(modID, version)
      [] op \in {"getMod", "findVersionMatchingAll"} -> ModID_(modID)
      [] op \in {"getModVersions", "getModLatestVersion"} -> ModVersionsID(modID)
      [] op \in {"getAvailableSMLVersions", "getSMLVersionInfo", "getLatestSMLVersion"} ->
            SMLVersionsID
      [] op \in {"getAvailableBootstrapperVersions", "getBootstrapperVersionInfo",
                 "getLatestBootstrapperVersion"} -> BootstrapperVersionsID
      [] op = "findAllVersionsMatchingAll" ->
            IF modID = SMLModID THEN SMLVersionsID
            ELSE IF modID = BootstrapperModID THEN BootstrapperVersionsID
            ELSE ModID_(modID)

RequestID(c) == RequestIDOf(c.op, c.modID, c.version)

\* The body of the function call c names
Exec(c, fetched, res) ==
    CASE c.op = "getAvailableMods" -> getAvailableMods(fetched, res, cachedFetch)
      [] c.op = "getModDownloadLink" ->
            getModDownloadLink(c.modID, c.version, fetched, res, cachedFetch)
      [] c.op = "getMod" -> getMod(c.modID, fetched, res, cachedFetch)
      [] c.op = "getModVersions" -> getModVersions(c.modID, fetched, res, cachedFetch)
      [] c.op = "getModLatestVersion" -> getModLatestVersion(c.modID, fetched, res, cachedFetch)
      [] c.op = "findVersionMatchingAll" ->
            findVersionMatchingAll(c.modID, c.constraints, fetched, res, cachedFetch)
      [] c.op = "getAvailableSMLVersions" -> getAvailableSMLVersions(fetched, res, cachedFetch)
      [] c.op = "getAvailableBootstrapperVersions" ->
            getAvailableBootstrapperVersions(fetched, res, cachedFetch)
      [] c.op = "getSMLVersionInfo" -> getSMLVersionInfo(c.version, fetched, res, cachedFetch)
      [] c.op = "getLatestSMLVersion" -> getLatestSMLVersion(fetched, res, cachedFetch)
      [] c.op = "getBootstrapperVersionInfo" ->
            getBootstrapperVersionInfo(c.version, fetched, res, cachedFetch)
      [] c.op = "getLatestBootstrapperVersion" ->
            getLatestBootstrapperVersion(fetched, res, cachedFetch)
      [] c.op = "findAllVersionsMatchingAll" ->
            findAllVersionsMatchingAll(c.modID, c.constraints, fetched, res, cachedFetch)

\* The function ends as r says
Finish(p, r, res) ==
    /\ ret' = [ret EXCEPT ![p] = [kind |-> r.kind, val |-> r.val, src |-> r.src,
                                  obj |-> r.obj, arr |-> r.arr, res |-> res]]
    /\ cachedFetch' = r.cf
    /\ versionsOf' = r.vo

Call(p, op, modID, version, constraints) ==
    LET requestID == RequestIDOf(op, modID, version)
        passed == cooldownPassed(requestID)
        c == [pc |-> IF passed THEN "await" ELSE "idle", op |-> op, modID |-> modID,
              version |-> version, constraints |-> constraints, start |-> now,
              issued |-> passed, debug |-> useTempMods]
    IN  /\ calls[p].pc = "idle"
        /\ calls' = [calls EXCEPT ![p] = c]
        /\ IF passed
           THEN /\ ret' = [ret EXCEPT ![p] = NoRet]
                /\ UNCHANGED <<cachedFetch, versionsOf>>
           ELSE Finish(p, Exec(c, FALSE, NoRes), NoRes)
        /\ UNCHANGED <<useTempMods, tempMods, now, ticks, addedOf>>

\* The replies the service can give to the request of call c, its version lists
\* drawn from lists
Replies(c, lists) ==
    LET requestID == RequestID(c)
        modLists == { [i \in 1..Len(l) |-> VersionRecord(c.modID, l[i])] : l \in lists }
        loaderLists == { [i \in 1..Len(l) |-> LoaderVersion(l[i])] : l \in lists }
    IN  {TransportFailure, NullData} \cup
        CASE requestID[1] = "getAvailableMods" ->
                { Data([mods |-> <<>>]) } \cup
                { Data([mods |-> <<LiveMod("A", l)>>]) : l \in modLists }
          [] requestID[1] = "getModDownloadLink" ->
                { Data([getMod |-> <<>>]),
                  Data([getMod |-> <<[version |-> <<>>]>>]),
                  Data([getMod |-> <<[version |-> <<[link |-> "/files/a.zip"]>>]>>]) }
          [] requestID[1] \in {"getMod", "getModVersions"} ->
                { Data([getMod |-> <<>>]) } \cup
                { Data([getMod |-> <<LiveMod(c.modID, l)>>]) : l \in modLists }
          [] requestID[1] = "getSMLVersions" ->
                { Data([sml_versions |-> l]) : l \in loaderLists }
          [] requestID[1] = "getBootstrapperVersions" ->
                { Data([bootstrap_versions |-> l]) : l \in loaderLists }

Resume(p, res) ==
    /\ calls[p].pc = "await"
    /\ calls' = [calls EXCEPT ![p].pc = "idle"]
    /\ Finish(p, Exec(calls[p], TRUE, res), res)
    /\ UNCHANGED <<useTempMods, tempMods, now, ticks, addedOf>>

\* The request of p's call is answered, with any of the replies it can get
Reply(p, lists) ==
    /\ calls[p].pc = "await"
    /\ \E res \in Replies(calls[p], lists) : Resume(p, res)

\* Date.now() advances by d
Tick(d) ==
    /\ ticks < MaxTicks
    /\ now' = now + d
    /\ ticks' = ticks + 1
    /\ UNCHANGED <<useTempMods, tempMods, versionsOf, cachedFetch, calls, ret, addedOf>>

Init ==
    /\ useTempMods = FALSE
    /\ tempMods = <<>>
    /\ versionsOf = [o \in TempObjs |-> <<>>]
    /\ cachedFetch = [r \in RequestIDs |-> NoFetch]
    /\ now = 0
    /\ ticks = 0
    /\ calls = [p \in Procs |-> NoCall]
    /\ ret = [p \in Procs |-> NoRet]
    /\ lastCall = NoOverlayCall
    /\ addedOf = [o \in TempObjs |-> <<>>]

---------------------------------------------------------------------------
(* The cache under the clock: the six cached functions, called by two      *)
(* callers whose calls may overlap, with the clock advancing in between.   *)

call_getAvailableMods(p) == Call(p, "getAvailableMods", "", NoVersion, <<>>)

call_getMod(p, modID) == Call(p, "getMod", modID, NoVersion, <<>>)

call_getModVersions(p, modID) == Call(p, "getModVersions", modID, NoVersion, <<>>)

call_getModDownloadLink(p, modID, version) == Call(p, "getModDownloadLink", modID, version, <<>>)

call_getAvailableSMLVersions(p) == Call(p, "getAvailableSMLVersions", "", NoVersion, <<>>)

call_getAvailableBootstrapperVersions(p) ==
    Call(p, "getAvailableBootstrapperVersions", "", NoVersion, <<>>)

\* The steps of the clock: a second, and what then lacks to the cooldown
ClockSteps == {OneSecond, fetchCooldown - OneSecond}

ClockLists == { <<<<2, 0, 0>>>> }

NextClock ==
    \/ \E d \in ClockSteps : Tick(d) /\ UNCHANGED lastCall
    \/ call_getAvailableMods("c1") /\ UNCHANGED lastCall
    \/ call_getMod("c1", "A") /\ UNCHANGED lastCall
    \/ call_getModVersions("c1", "A") /\ UNCHANGED lastCall
    \/ call_getModDownloadLink("c1", "A", <<1, 0, 0>>) /\ UNCHANGED lastCall
    \/ call_getAvailableSMLVersions("c1") /\ UNCHANGED lastCall
    \/ call_getAvailableBootstrapperVersions("c1") /\ UNCHANGED lastCall
    \/ Reply("c1", ClockLists) /\ UNCHANGED lastCall

SpecClock == Init /\ [][NextClock]_vars

Next ==
    \/ \E d \in ClockSteps : Tick(d) /\ UNCHANGED lastCall
    \/ \E p \in Procs : call_getAvailableMods(p) /\ UNCHANGED lastCall
    \/ \E p \in Procs : call_getMod(p, "A") /\ UNCHANGED lastCall
    \/ \E p \in Procs : call_getAvailableBootstrapperVersions(p) /\ UNCHANGED lastCall
    \/ \E p \in Procs : Reply(p, ClockLists) /\ UNCHANGED lastCall

Spec == Init /\ [][Next]_vars

---------------------------------------------------------------------------
(* The overlay alone: the debug flag and the four overlay operations, with *)
(* every caller object and every id.                                       *)

OverlayVersions == {<<1, 0, 0>>, <<2, 0, 0>>}

\* Every step records in lastCall the operation it is and the arguments it was given.
NextOverlay ==
    \/ \E enable \in BOOLEAN :
          /\ setUseTempMods(enable)
          /\ lastCall' = OverlayCall("setUseTempMods", NoObj, "", NoVersion)
    \/ \E use \in BOOLEAN :
          /\ getUseTempMods(use)
          /\ lastCall' = OverlayCall("getUseTempMods", NoObj, "", NoVersion)
    \/ \E mod \in TempObjs :
          /\ addTempMod(mod)
          /\ lastCall' = OverlayCall("addTempMod", mod, tempID(mod), NoVersion)
    \/ \E modID \in ModIDs, v \in OverlayVersions :
          /\ addTempModVersion(VersionRecord(modID, v))
          /\ lastCall' = OverlayCall("addTempModVersion", NoObj, modID, v)
    \/ \E modID \in ModIDs :
          /\ removeTempMod(modID)
          /\ lastCall' = OverlayCall("removeTempMod", NoObj, modID, NoVersion)
    \/ \E modID \in ModIDs, v \in OverlayVersions :
          /\ removeTempModVersion(modID, v)
          /\ lastCall' = OverlayCall("removeTempModVersion", NoObj, modID, v)

SpecOverlay == Init /\ [][NextOverlay]_vars

---------------------------------------------------------------------------
(* The overlay under queries: one caller asks for mods while the flag and  *)
(* the overlay change, also between a request and its reply.               *)

QueryLists == { <<<<1, 0, 0>>>> }

NextQuery ==
    \/ \E enable \in BOOLEAN : setUseTempMods(enable) /\ UNCHANGED lastCall
    \/ \E mod \in {"m1", "m3"} : addTempMod(mod) /\ UNCHANGED lastCall
    \/ addTempModVersion(VersionRecord("A", <<2, 0, 0>>)) /\ UNCHANGED lastCall
    \/ \E modID \in ModIDs : removeTempMod(modID) /\ UNCHANGED lastCall
    \/ call_getAvailableMods("c1") /\ UNCHANGED lastCall
    \/ call_getMod("c1", "A") /\ UNCHANGED lastCall
    \/ call_getModVersions("c1", "A") /\ UNCHANGED lastCall
    \/ call_getModDownloadLink("c1", "A", <<1, 0, 0>>) /\ UNCHANGED lastCall
    \/ Reply("c1", QueryLists) /\ UNCHANGED lastCall

SpecQuery == Init /\ [][NextQuery]_vars

---------------------------------------------------------------------------
(* The fallback to the overlay: getMod and getModVersions for a mod the    *)
(* service may or may not know, with the overlay changing and the clock    *)
(* making entries stale.                                                   *)

NextFallback ==
    \/ \E enable \in BOOLEAN : setUseTempMods(enable) /\ UNCHANGED lastCall
    \/ \E mod \in {"m1", "m2"} : addTempMod(mod) /\ UNCHANGED lastCall
    \/ addTempModVersion(VersionRecord("A", <<2, 0, 0>>)) /\ UNCHANGED lastCall
    \/ removeTempMod("A") /\ UNCHANGED lastCall
    \/ call_getMod("c1", "A") /\ UNCHANGED lastCall
    \/ call_getModVersions("c1", "A") /\ UNCHANGED lastCall
    \/ Reply("c1", QueryLists) /\ UNCHANGED lastCall
    \/ Tick(fetchCooldown + OneSecond) /\ UNCHANGED lastCall

SpecFallback == Init /\ [][NextFallback]_vars

---------------------------------------------------------------------------
(* The loader versions: the four loader-version queries, for any list the  *)
(* service sends, with the clock making the entry stale.                   *)

call_getSMLVersionInfo(p, version) == Call(p, "getSMLVersionInfo", "", version, <<>>)

call_getLatestSMLVersion(p) == Call(p, "getLatestSMLVersion", "", NoVersion, <<>>)

call_getLatestBootstrapperVersion(p) ==
    Call(p, "getLatestBootstrapperVersion", "", NoVersion, <<>>)

call_getModLatestVersion(p, modID) == Call(p, "getModLatestVersion", modID, NoVersion, <<>>)

call_findVersionMatchingAll(p, modID, versionConstraints) ==
    Call(p, "findVersionMatchingAll", modID, NoVersion, versionConstraints)

call_findAllVersionsMatchingAll(p, modID, versionConstraints) ==
    Call(p, "findAllVersionsMatchingAll", modID, NoVersion, versionConstraints)

\* The version lists the service may send
VersionLists == SeqsUpTo(Versions, MaxLen)

\* The constraint arrays a caller may give: none, ">=2.1.0", "<2.1.0", and
\* ">=2.0.0" with "<2.1.0"
ConstraintLists ==
    { <<>>,
      <<[op |-> ">=", version |-> <<2, 1, 0>>]>>,
      <<[op |-> "<", version |-> <<2, 1, 0>>]>>,
      <<[op |-> ">=", version |-> <<2, 0, 0>>], [op |-> "<", version |-> <<2, 1, 0>>]>> }

NextLoader ==
    \/ call_getAvailableSMLVersions("c1") /\ UNCHANGED lastCall
    \/ \E v \in Versions : call_getSMLVersionInfo("c1", v) /\ UNCHANGED lastCall
    \/ call_getLatestSMLVersion("c1") /\ UNCHANGED lastCall
    \/ \E C \in ConstraintLists :
          call_findAllVersionsMatchingAll("c1", SMLModID, C) /\ UNCHANGED lastCall
    \/ Reply("c1", VersionLists) /\ UNCHANGED lastCall
    \/ Tick(fetchCooldown + OneSecond) /\ UNCHANGED lastCall

SpecLoader == Init /\ [][NextLoader]_vars

---------------------------------------------------------------------------
(* Matching: findAllVersionsMatchingAll for the loader, the bootstrapper   *)
(* and a mod of the service, the lists' order changed by the               *)
(* latest-version accessors.                                               *)

NextMatch ==
    \/ \E modID \in {SMLModID, BootstrapperModID, "A"}, C \in ConstraintLists :
          call_findAllVersionsMatchingAll("c1", modID, C) /\ UNCHANGED lastCall
    \/ call_getLatestSMLVersion("c1") /\ UNCHANGED lastCall
    \/ call_getLatestBootstrapperVersion("c1") /\ UNCHANGED lastCall
    \/ Reply("c1", VersionLists) /\ UNCHANGED lastCall

SpecMatch == Init /\ [][NextMatch]_vars

---------------------------------------------------------------------------
(* The latest version of a mod: getModLatestVersion and getModVersions for *)
(* a mod of the service or of the overlay.                                 *)

NextLatest ==
    \/ \E enable \in BOOLEAN : setUseTempMods(enable) /\ UNCHANGED lastCall
    \/ addTempMod("m1") /\ UNCHANGED lastCall
    \/ \E v \in Versions : addTempModVersion(VersionRecord("A", v)) /\ UNCHANGED lastCall
    \/ call_getModVersions("c1", "A") /\ UNCHANGED lastCall
    \/ call_getModLatestVersion("c1", "A") /\ UNCHANGED lastCall
    \/ Reply("c1", VersionLists) /\ UNCHANGED lastCall

SpecLatest == Init /\ [][NextLatest]_vars

---------------------------------------------------------------------------
(* Selection: findVersionMatchingAll among the other accessors of the same *)
(* mod, of the service or of the overlay.                                  *)

SelectLists == SeqsUpTo(OverlayVersions, MaxLen)

NextSelect ==
    \/ \E enable \in BOOLEAN : setUseTempMods(enable) /\ UNCHANGED lastCall
    \/ addTempMod("m1") /\ UNCHANGED lastCall
    \/ \E v \in OverlayVersions : addTempModVersion(VersionRecord("A", v)) /\ UNCHANGED lastCall
    \/ call_getMod("c1", "A") /\ UNCHANGED lastCall
    \/ call_getModVersions("c1", "A") /\ UNCHANGED lastCall
    \/ call_getModLatestVersion("c1", "A") /\ UNCHANGED lastCall
    \/ \E C \in ConstraintLists : call_findVersionMatchingAll("c1", "A", C) /\ UNCHANGED lastCall
    \/ Reply("c1", SelectLists) /\ UNCHANGED lastCall

SpecSelect == Init /\ [][NextSelect]_vars

---------------------------------------------------------------------------
(* Steps of a caller, read off the variables. *)

\* p's call begins in this step (and ends in it when its cache entry is fresh)
CallStep(p) ==
    /\ calls[p].pc = "idle"
    /\ calls'[p] # calls[p] \/ ret'[p] # ret[p]

\* p's request is answered in this step and p's call runs to its end
ResumeStep(p) == calls[p].pc = "await" /\ calls'[p].pc = "idle"

\* The age of the entry p's new call finds under its request identity
AgeFound(p) == now - cachedFetch[RequestID(calls'[p])].time

\* p's new call is answered from the entry it finds, without a request
ServedFromCache(p) ==
    /\ ~calls'[p].issued
    /\ calls'[p].pc = "idle"
    /\ ret'[p].kind = "ok"
    /\ ret'[p].src = "cache"
    /\ ret'[p].val = cachedFetch[RequestID(calls'[p])].data
    /\ cachedFetch' = cachedFetch

\* p's new call sends a request and returns nothing before the reply
Refetches(p) ==
    /\ calls'[p].issued
    /\ calls'[p].pc = "await"
    /\ ret'[p] = NoRet

\* A call that was answered by a reply never returns the entry it found
AnsweredByReply(p) ==
    /\ ret'[p].src # "cache"
    /\ ret'[p].src = "fetch" =>
          /\ cachedFetch'[RequestID(calls[p])].time = now
          /\ ret'[p].val = cachedFetch'[RequestID(calls[p])].data

---------------------------------------------------------------------------
(* The freshness window and request deduplication. *)

\* C1 (as stated): an entry written at t is served without a refetch to every call
\* at t' < t + 5min, and to no call at t' >= t + 5min, which refetches first.
C1_AsStated ==
    [][\A p \in Procs :
          /\ CallStep(p) /\ cachedFetch[RequestID(calls'[p])].set =>
                IF AgeFound(p) < fetchCooldown THEN ServedFromCache(p) ELSE Refetches(p)
          /\ ResumeStep(p) => AnsweredByReply(p)]_vars

\* C1 (amended): an entry written at t is served without a refetch to every call
\* at t' <= t + 5min (t + 5min included), and to no call at t' > t + 5min, which
\* sends a request and returns what the reply gives or fails.
C1_FreshWindow ==
    [][\A p \in Procs :
          /\ CallStep(p) /\ cachedFetch[RequestID(calls'[p])].set =>
                IF AgeFound(p) <= fetchCooldown THEN ServedFromCache(p) ELSE Refetches(p)
          /\ CallStep(p) /\ ~cachedFetch[RequestID(calls'[p])].set => Refetches(p)
          /\ ResumeStep(p) => AnsweredByReply(p)]_vars

\* C1 witness: a call made exactly 5 minutes after the entry was written has been
\* answered from the cache.
C1_Witness ==
    /\ calls["c1"].pc = "idle"
    /\ calls["c1"].op = "getModDownloadLink"
    /\ ~calls["c1"].issued
    /\ ret["c1"].src = "cache"
    /\ calls["c1"].start - cachedFetch[RequestID(calls["c1"])].time = fetchCooldown

\* C2 (as stated): two calls of getAvailableMods started within a second of each
\* other send exactly one request in total, also when they overlap.
C2_AsStated ==
    \A p, q \in Procs :
        /\ p # q
        /\ calls[p].op = "getAvailableMods"
        /\ calls[q].op = "getAvailableMods"
        /\ calls[q].start - calls[p].start \in 0..OneSecond
        => (calls[p].issued # calls[q].issued)

\* C2 (amended): when the first call missed the cache and has returned its result,
\* a second call started within a second of the first's start sends no request, so
\* the two send exactly one; a second call started while the first still awaits its
\* reply, the entry being absent or stale, sends a request of its own.
C2_OneRequestAfterReturn ==
    [][\A p, q \in Procs :
          /\ p # q
          /\ CallStep(q)
          /\ calls'[q].op = "getAvailableMods"
          /\ calls[p].op = "getAvailableMods"
          =>
          /\ ( /\ calls[p].pc = "idle"
               /\ calls[p].issued
               /\ ret[p].kind = "ok"
               /\ now - calls[p].start <= OneSecond )
             => ServedFromCache(q)
          /\ ( /\ calls[p].pc = "await"
               /\ \/ ~cachedFetch[AvailableModsID].set
                  \/ now - cachedFetch[AvailableModsID].time > fetchCooldown )
             => Refetches(q)]_vars

\* C2 witness: the first call fetched and returned, the clock advanced by a second,
\* and the second call was answered from the cache.
C2_Witness ==
    \E p, q \in Procs :
        /\ p # q
        /\ calls[p].op = "getAvailableMods" /\ calls[p].issued /\ ret[p].kind = "ok"
        /\ calls[q].op = "getAvailableMods" /\ ~calls[q].issued /\ ret[q].src = "cache"
        /\ calls[q].start - calls[p].start = OneSecond

---------------------------------------------------------------------------
(* The overlay and the debug flag. *)

\* p's call ends in this step
EndStep(p) == (CallStep(p) \/ ResumeStep(p)) /\ calls'[p].pc = "idle"

\* What p's call gives shows a temporary mod
ShowsOverlay(r) ==
    \/ r.kind = "TempModNoLink"
    \/ r.src = "overlay"
    \/ r.kind = "ok" /\ \E i \in 1..Len(r.val) : r.val[i].temp

\* C3 (as stated): a call of getAvailableMods, getMod, getModVersions or
\* getModDownloadLink made with the debug flag disabled ends as it would with an empty
\* overlay: no temporary mod is in the list it returns, and it neither returns a
\* temporary mod nor fails with the failure kept for temporary mods.
C3_AsStated ==
    [][\A p \in Procs :
          /\ EndStep(p)
          /\ ~calls'[p].debug
          /\ ~useTempMods
          /\ calls'[p].op \in {"getAvailableMods", "getMod", "getModVersions", "getModDownloadLink"}
          => IF calls'[p].op = "getAvailableMods"
             THEN ~ShowsOverlay(ret'[p])
             ELSE ret'[p].kind # "TempModNoLink" /\ ret'[p].src # "overlay"]_vars

OverlayMutators == {"addTempMod", "addTempModVersion", "removeTempMod", "removeTempModVersion"}

\* The first overlay mod with the id, as a set of at most one caller object
FirstWithID(modID) ==
    { tempMods[i] : i \in { j \in 1..Len(tempMods) :
                              /\ tempID(tempMods[j]) = modID
                              /\ \A k \in 1..(j - 1) : tempID(tempMods[k]) # modID } }

\* s without the elements outside keep, in order
Restrict(s, keep) == LET Kept(e) == e \in keep IN SelectSeq(s, Kept)

\* C4: with the debug flag disabled the four overlay operations change neither the
\* overlay's mod list nor any version list; with it enabled addTempMod appends the
\* given mod, addTempModVersion appends the version to the (first) overlay mod with
\* id version.mod_id and does nothing when there is none, removeTempMod(id) leaves
\* no overlay mod with that id and the others as they were, and
\* removeTempModVersion(id, v) leaves no entry with version v in the list of the
\* (first) overlay mod with that id and everything else as it was.
C4_OverlayOperations ==
    [][LET c == lastCall'
           found == FirstWithID(c.modID)
       IN
       /\ c.op \in OverlayMutators /\ ~useTempMods =>
             tempMods' = tempMods /\ versionsOf' = versionsOf
       /\ c.op = "addTempMod" /\ useTempMods =>
             tempMods' = Append(tempMods, c.obj) /\ versionsOf' = versionsOf
       /\ c.op = "addTempModVersion" /\ useTempMods =>
             /\ tempMods' = tempMods
             /\ \A o \in TempObjs :
                   versionsOf'[o] = IF o \in found
                                    THEN Append(versionsOf[o], VersionRecord(c.modID, c.version))
                                    ELSE versionsOf[o]
       /\ c.op = "removeTempMod" /\ useTempMods =>
             /\ \A i \in 1..Len(tempMods') : tempID(tempMods'[i]) # c.modID
             /\ tempMods' = Restrict(tempMods, { o \in TempObjs : tempID(o) # c.modID })
             /\ versionsOf' = versionsOf
       /\ c.op = "removeTempModVersion" /\ useTempMods =>
             /\ tempMods' = tempMods
             /\ \A o \in found : \A i \in 1..Len(versionsOf'[o]) :
                   versionsOf'[o][i].version # c.version
             /\ \A o \in TempObjs :
                   versionsOf'[o] = IF o \in found
                                    THEN Restrict(versionsOf[o],
                                            { e \in Range(versionsOf[o]) : e.version # c.version })
                                    ELSE versionsOf[o]
      ]_vars

\* C4 witness: with the flag enabled, a version has just been added to the mod "A"
\* that stands second in the overlay, behind a mod with another id.
C4_Witness ==
    /\ useTempMods
    /\ lastCall.op = "addTempModVersion"
    /\ lastCall.modID = "A"
    /\ tempMods = <<"m3", "m1">>
    /\ versionsOf["m1"] = <<VersionRecord("A", <<1, 0, 0>>), VersionRecord("A", lastCall.version)>>
    /\ versionsOf["m3"] = <<>>

\* C5 (as stated): no two mods of the overlay have the same id, and no overlay mod's
\* version list holds a version twice.
C5_AsStated ==
    /\ \A i, j \in 1..Len(tempMods) : tempID(tempMods[i]) = tempID(tempMods[j]) => i = j
    /\ \A k \in 1..Len(tempMods) :
          \A i, j \in 1..Len(versionsOf[tempMods[k]]) :
              versionsOf[tempMods[k]][i].version = versionsOf[tempMods[k]][j].version => i = j

\* C6: when getMod(id) or getModVersions(id) has fetched and the service reports no
\* mod with the id, the call returns the (first) overlay mod with the id, or its
\* version list, if the debug flag is enabled and the overlay holds one, and fails
\* with mod-not-found otherwise.
C6_FallbackOrNotFound ==
    [][\A p \in Procs :
          /\ ResumeStep(p)
          /\ calls[p].op \in {"getMod", "getModVersions"}
          /\ ret'[p].res = Data([getMod |-> <<>>])
          => LET found == FirstWithID(calls[p].modID) IN
             IF useTempMods /\ found # {}
             THEN /\ ret'[p].kind = "ok"
                  /\ ret'[p].src = "overlay"
                  /\ ret'[p].obj \in found
                  /\ ret'[p].val = IF calls[p].op = "getMod"
                                   THEN TempRef(ret'[p].obj)
                                   ELSE versionsOf[ret'[p].obj]
             ELSE ret'[p].kind = "ModNotFound"]_vars

\* C6 witness: the entry of getMod_A was stale, the service reported no mod A, and
\* getMod returned the overlay's mod A, which has a version.
C6_Witness ==
    /\ calls["c1"].op = "getMod"
    /\ calls["c1"].pc = "idle"
    /\ calls["c1"].issued
    /\ cachedFetch[ModID_("A")].set
    /\ ret["c1"].res = Data([getMod |-> <<>>])
    /\ ret["c1"].src = "overlay"
    /\ versionsOf[ret["c1"].obj] # <<>>

---------------------------------------------------------------------------
(* Version selection. *)

LoaderQueries ==
    {"getAvailableSMLVersions", "getSMLVersionInfo", "getLatestSMLVersion",
     "findAllVersionsMatchingAll"}

\* The versions in what p's loader query returned
ReturnedVersions(p) ==
    IF calls[p].op = "findAllVersionsMatchingAll"
    THEN Range(ret[p].val)
    ELSE { e.version : e \in Range(ret[p].val) }

\* C7: no loader-version query (getAvailableSMLVersions, getSMLVersionInfo,
\* getLatestSMLVersion, findAllVersionsMatchingAll for the loader id) returns a
\* version below minSMLVersion, whether it fetched or read the cache.
C7_LoaderFloor ==
    \A p \in Procs :
        /\ calls[p].pc = "idle"
        /\ calls[p].op \in LoaderQueries
        /\ calls[p].op = "findAllVersionsMatchingAll" => calls[p].modID = SMLModID
        /\ ret[p].kind = "ok"
        => \A v \in ReturnedVersions(p) : compare(v, minSMLVersion) >= 0

\* C7 witness: the entry being stale, getLatestSMLVersion fetched, the service listed
\* 1.0.0 and 2.0.0, and the call returned 2.0.0.
C7_Witness ==
    /\ calls["c1"].pc = "idle"
    /\ calls["c1"].op = "getLatestSMLVersion"
    /\ ticks > 0
    /\ ret["c1"].res =
          Data([sml_versions |-> <<LoaderVersion(<<1, 0, 0>>), LoaderVersion(<<2, 0, 0>>)>>])
    /\ ret["c1"].val = <<LoaderVersion(<<2, 0, 0>>)>>

\* The list held for the id when p's call ends: the cached loader or bootstrapper
\* list, or the version list of the cached mod
HeldVersions(p) ==
    LET modID == calls'[p].modID IN
    IF modID = SMLModID THEN cachedFetch'[SMLVersionsID].data
    ELSE IF modID = BootstrapperModID THEN cachedFetch'[BootstrapperVersionsID].data
    ELSE cachedFetch'[ModID_(modID)].data.versions

\* C8: findAllVersionsMatchingAll(id, C) returns exactly the versions of the list held
\* for id that satisfy every constraint of C and, for the loader id, are at least
\* minSMLVersion; for the bootstrapper id and for mods there is no floor.
C8_ExactlyMatching ==
    [][\A p \in Procs :
          /\ EndStep(p)
          /\ calls'[p].op = "findAllVersionsMatchingAll"
          /\ ret'[p].kind = "ok"
          => Range(ret'[p].val) =
                { e.version : e \in
                    { f \in Range(HeldVersions(p)) :
                        /\ \A i \in 1..Len(calls'[p].constraints) :
                              satisfies(f.version, calls'[p].constraints[i])
                        /\ calls'[p].modID = SMLModID =>
                              compare(f.version, minSMLVersion) >= 0 } }]_vars

\* C8 witness: the bootstrapper list holds 1.0.0 and 2.1.0, and
\* findAllVersionsMatchingAll(bootstrapper, ["<2.1.0"]) returned 1.0.0 alone.
C8_Witness ==
    /\ calls["c1"].pc = "idle"
    /\ calls["c1"].op = "findAllVersionsMatchingAll"
    /\ calls["c1"].modID = BootstrapperModID
    /\ calls["c1"].constraints = <<[op |-> "<", version |-> <<2, 1, 0>>]>>
    /\ Range(cachedFetch[BootstrapperVersionsID].data) =
          {LoaderVersion(<<1, 0, 0>>), LoaderVersion(<<2, 1, 0>>)}
    /\ ret["c1"].val = <<(<<1, 0, 0>>)>>

\* The version list of the mod p's call was given, in its original order: as the
\* service sent it, or as the versions were added to the temporary mod
OriginalVersions(p) ==
    IF ret'[p].src = "overlay"
    THEN addedOf[ret'[p].obj]
    ELSE cachedFetch'[ModID_(calls'[p].modID)].orig.versions

\* C9 (as stated): findVersionMatchingAll(id, C) returns the first version, in the
\* list's original order, that satisfies every constraint of C, and nothing exactly
\* when none does, whatever accessors were called before.
C9_AsStated ==
    [][\A p \in Procs :
          /\ EndStep(p)
          /\ calls'[p].op = "findVersionMatchingAll"
          /\ ret'[p].kind = "ok"
          => LET V == OriginalVersions(p)
                 C == calls'[p].constraints
                 matching == { i \in 1..Len(V) :
                                 \A k \in 1..Len(C) : satisfies(V[i].version, C[k]) }
             IN  IF matching = {} THEN ret'[p].val = <<>>
                 ELSE \E i \in matching :
                        /\ \A j \in matching : i <= j
                        /\ ret'[p].val = <<V[i].version>>]_vars

\* The list getModLatestVersion reads, as it is before the call sorts it
ListRead(p) ==
    IF ret'[p].src = "overlay" THEN versionsOf[ret'[p].obj]
    ELSE IF ret'[p].src = "cache" THEN cachedFetch[ModVersionsID(calls'[p].modID)].data
    ELSE ret'[p].res.body.getMod[1].versions

\* C10: for a non-empty version list, getModLatestVersion(id) returns a record of
\* the list whose version is maximal: no record of the list has a greater version.
C10_LatestIsMaximal ==
    [][\A p \in Procs :
          /\ EndStep(p)
          /\ calls'[p].op = "getModLatestVersion"
          /\ ret'[p].kind = "ok"
          /\ ListRead(p) # <<>>
          => /\ Len(ret'[p].val) = 1
             /\ ret'[p].val[1] \in Range(ListRead(p))
             /\ \A e \in Range(ListRead(p)) :
                   compare(e.version, ret'[p].val[1].version) <= 0]_vars

\* C10 witness: the list read was 1.0.0, 2.1.0 in this order, and getModLatestVersion
\* returned the record of 2.1.0.
C10_Witness ==
    /\ calls["c1"].pc = "idle"
    /\ calls["c1"].op = "getModLatestVersion"
    /\ ret["c1"].arr = <<VersionRecord("A", <<1, 0, 0>>), VersionRecord("A", <<2, 1, 0>>)>>
    /\ ret["c1"].val = <<VersionRecord("A", <<2, 1, 0>>)>>

---------------------------------------------------------------------------
(* Failures. *)

\* The replies to getModDownloadLink that hold no link: no mod, or no such version
NoLinkReplies == { Data([getMod |-> <<>>]), Data([getMod |-> <<[version |-> <<>>]>>]) }

\* C11: when the service has no link for the mod and version, getModDownloadLink
\* fails: with the failure kept for temporary mods when the service has no such mod
\* and the overlay holds one with the id, with the plain not-found failure when
\* neither has it, the two being different failures; it returns no link and leaves
\* the cache as it was.
C11_NoLinkFailures ==
    [][\A p \in Procs :
          /\ ResumeStep(p)
          /\ calls[p].op = "getModDownloadLink"
          /\ ret'[p].res \in NoLinkReplies
          => /\ ret'[p].kind \in {"TempModNoLink", "ModNotFound"}
             /\ ret'[p].val = NoData
             /\ cachedFetch' = cachedFetch
             /\ ret'[p].res = Data([getMod |-> <<>>]) =>
                   (ret'[p].kind = "TempModNoLink" <=> FirstWithID(calls[p].modID) # {})]_vars

\* C11 witness: the service knows no mod A, the overlay holds one, and
\* getModDownloadLink has failed with the failure kept for temporary mods, the entry
\* of the link still absent.
C11_Witness ==
    /\ calls["c1"].pc = "idle"
    /\ calls["c1"].op = "getModDownloadLink"
    /\ ret["c1"].res = Data([getMod |-> <<>>])
    /\ ret["c1"].kind = "TempModNoLink"
    /\ FirstWithID("A") # {}
    /\ ~cachedFetch[DownloadLinkID("A", <<1, 0, 0>>)].set

\* Failing requests: one caller, the cached functions and three that build on them,
\* any reply, and the clock making entries stale.
NextFailure ==
    \/ call_getAvailableMods("c1") /\ UNCHANGED lastCall
    \/ call_getMod("c1", "A") /\ UNCHANGED lastCall
    \/ call_getModVersions("c1", "A") /\ UNCHANGED lastCall
    \/ call_getModDownloadLink("c1", "A", <<1, 0, 0>>) /\ UNCHANGED lastCall
    \/ call_getAvailableSMLVersions("c1") /\ UNCHANGED lastCall
    \/ call_getAvailableBootstrapperVersions("c1") /\ UNCHANGED lastCall
    \/ call_getModLatestVersion("c1", "A") /\ UNCHANGED lastCall
    \/ call_findVersionMatchingAll("c1", "A", <<>>) /\ UNCHANGED lastCall
    \/ call_getLatestSMLVersion("c1") /\ UNCHANGED lastCall
    \/ Reply("c1", ClockLists) /\ UNCHANGED lastCall
    \/ Tick(fetchCooldown + OneSecond) /\ UNCHANGED lastCall

SpecFailure == Init /\ [][NextFailure]_vars

\* C12 (as stated): when the service answers with an errors list and data null, the
\* function called fails with that list, as a registry error.
C12_AsStated ==
    [][\A p \in Procs :
          ResumeStep(p) /\ ret'[p].res = NullData => ret'[p].kind = "RegistryError"]_vars

\* C13: fiscitApiQuery gives a value for every outcome of the request, with an errors
\* field exactly when the request or the parse of its body failed, and every function
\* then fails with that network error and returns nothing.
C13_TransportFailureRaised ==
    [][\A p \in Procs :
          ResumeStep(p) =>
             LET res == ret'[p].res
                 q == fiscitApiQuery(res)
             IN  /\ q.errors <=> res = TransportFailure
                 /\ ~q.errors /\ ~q.null => q.data = res.body
                 /\ res = TransportFailure =>
                       ret'[p].kind = "NetworkError" /\ ret'[p].val = NoData]_vars

\* C13 witness: getModLatestVersion sent a request, the request failed, and the call
\* has failed with the network error.
C13_Witness ==
    /\ calls["c1"].pc = "idle"
    /\ calls["c1"].op = "getModLatestVersion"
    /\ calls["c1"].issued
    /\ ret["c1"].res = TransportFailure
    /\ ret["c1"].kind = "NetworkError"

\* The replies that make a fetch fail: the request fails, the service answers with
\* errors, or it has no such mod, version or link
FailedFetch(res) ==
    \/ res \in {TransportFailure, NullData}
    \/ res \in NoLinkReplies

---------------------------------------------------------------------------
(* Lists and their order. *)

\* C14 (as stated): with the debug flag enabled, the list getAvailableMods returns is
\* the service's list followed by every mod the overlay holds at the time of the
\* call, whether the call fetched or read the cache.
C14_AsStated ==
    [][\A p \in Procs :
          /\ EndStep(p)
          /\ calls'[p].op = "getAvailableMods"
          /\ calls'[p].debug
          /\ useTempMods
          /\ ret'[p].kind = "ok"
          => LET val == ret'[p].val
                 live == Restrict(val, { e \in Range(val) : ~e.temp })
             IN  val = pushTempMods(live)]_vars

\* Reads among sorts: one caller reads the loader list and a mod's versions again and
\* again, the other asks for the latest of each, and the clock advances.
NextOrder ==
    \/ call_getAvailableSMLVersions("c1") /\ UNCHANGED lastCall
    \/ call_getModVersions("c1", "A") /\ UNCHANGED lastCall
    \/ call_getLatestSMLVersion("c2") /\ UNCHANGED lastCall
    \/ call_getModLatestVersion("c2", "A") /\ UNCHANGED lastCall
    \/ \E p \in Procs : Reply(p, SelectLists) /\ UNCHANGED lastCall
    \/ Tick(OneSecond) /\ UNCHANGED lastCall

SpecOrder == Init /\ [][NextOrder]_vars

\* p's call, ending in this step, reads the entry that p's call before it read: the
\* same function with the same argument, begun after the entry was last written
ReadsAgain(p) ==
    /\ EndStep(p)
    /\ calls'[p].op \in {"getModVersions", "getAvailableSMLVersions",
                         "getAvailableBootstrapperVersions"}
    /\ ret'[p].kind = "ok"
    /\ calls[p].pc = "idle"
    /\ calls[p].op = calls'[p].op
    /\ calls[p].modID = calls'[p].modID
    /\ ret[p].kind = "ok"
    /\ calls[p].start > cachedFetch'[RequestID(calls'[p])].time

\* C15 (as stated): between two writes of a request identity every read of it returns
\* the same elements in the same order, whatever accessors ran in between, and no
\* accessor changes an overlay mod's version list.
C15_AsStated ==
    [][\A p \in Procs :
          /\ EndStep(p) => versionsOf' = versionsOf
          /\ ReadsAgain(p) => ret'[p].val = ret[p].val]_vars

---------------------------------------------------------------------------
(* Concurrent calls. *)

\* The entry p's new call finds under its request identity is fresh
FindsFresh(p) ==
    /\ cachedFetch[RequestID(calls'[p])].set
    /\ AgeFound(p) <= fetchCooldown

\* C17: calls are not serialised. A call whose fetch succeeds writes the entry of its
\* request identity whatever the entry holds, so that after two concurrent fetches the
\* entry has the payload and the time of the call that wrote last; a call that finds
\* a fresh entry sends no request and ends at once, with the entry's payload.
C17_LastWriterWins ==
    [][\A p \in Procs :
          /\ ( ResumeStep(p) /\ ret'[p].kind = "ok" /\ ret'[p].src = "fetch" )
             => /\ cachedFetch'[RequestID(calls[p])].set
                /\ cachedFetch'[RequestID(calls[p])].time = now
                /\ cachedFetch'[RequestID(calls[p])].data = ret'[p].val
                /\ \A a \in RequestIDs \ {RequestID(calls[p])} :
                      cachedFetch'[a] = cachedFetch[a]
          /\ ( CallStep(p) /\ FindsFresh(p) )
             => /\ ServedFromCache(p)
                /\ calls'[p].start = now]_vars

\* Two calls of getAvailableMods, both begun while the entry was missing, have both
\* sent a request and both written: they returned different lists and the entry holds
\* the list of the one that wrote last
C17_Witness ==
    \E p, q \in Procs :
        /\ p # q
        /\ calls[p].pc = "idle" /\ calls[q].pc = "idle"
        /\ calls[p].op = "getAvailableMods" /\ calls[q].op = "getAvailableMods"
        /\ calls[p].issued /\ calls[q].issued
        /\ calls[p].start = calls[q].start
        /\ ret[p].kind = "ok" /\ ret[p].src = "fetch"
        /\ ret[q].kind = "ok" /\ ret[q].src = "fetch"
        /\ ret[p].val # ret[q].val
        /\ cachedFetch[AvailableModsID].set
        /\ cachedFetch[AvailableModsID].data = ret[q].val
        /\ cachedFetch[AvailableModsID].time > calls[q].start

---------------------------------------------------------------------------
(* The debug flag as a toggle: the flag is set and reset by both of its    *)
(* functions while the overlay changes and one caller fills the cache.     *)

NextToggle ==
    \/ \E enable \in BOOLEAN : setUseTempMods(enable) /\ UNCHANGED lastCall
    \/ \E use \in BOOLEAN : getUseTempMods(use) /\ UNCHANGED lastCall
    \/ \E mod \in {"m1", "m3"} : addTempMod(mod) /\ UNCHANGED lastCall
    \/ \E v \in OverlayVersions : addTempModVersion(VersionRecord("A", v)) /\ UNCHANGED lastCall
    \/ \E modID \in ModIDs : removeTempMod(modID) /\ UNCHANGED lastCall
    \/ removeTempModVersion("A", <<1, 0, 0>>) /\ UNCHANGED lastCall
    \/ call_getAvailableMods("c1") /\ UNCHANGED lastCall
    \/ call_getModLatestVersion("c1", "A") /\ UNCHANGED lastCall
    \/ Reply("c1", QueryLists) /\ UNCHANGED lastCall

SpecToggle == Init /\ [][NextToggle]_vars

\* C18: the debug flag has two states and starts disabled, with an empty overlay. A
\* step that changes the flag leaves the overlay's mods, their versions and every cache
\* entry as they were, and no step taken with the flag disabled changes the overlay:
\* the overlay is empty until the flag is first enabled, and what was added while the
\* flag was enabled is still held when it is disabled and enabled again.
C18_FlagToggle ==
    /\ ~useTempMods /\ tempMods = <<>>
    /\ [](useTempMods \in BOOLEAN)
    /\ [][ /\ useTempMods' # useTempMods =>
                UNCHANGED <<tempMods, versionsOf, cachedFetch>>
           /\ ~useTempMods =>
                UNCHANGED <<tempMods, versionsOf>> ]_vars

\* The flag was disabled after a mod and a version were added and a list was cached:
\* the overlay and the cache still hold them
C18_Witness ==
    /\ ~useTempMods
    /\ tempMods # <<>>
    /\ versionsOf[tempMods[1]] # <<>>
    /\ cachedFetch[AvailableModsID].set

\* The reply res gives call c what it asked for
Succeeds(c, res) ==
    /\ res.kind = "data"
    /\ c.op = "getMod" => res.body.getMod # <<>>

\* What call c builds from the reply res to its own request
OwnPayload(c, res) ==
    CASE c.op = "getAvailableMods" ->
            IF useTempMods THEN pushTempMods(res.body.mods) ELSE res.body.mods
      [] c.op = "getMod" -> res.body.getMod[1]
      [] c.op = "getAvailableBootstrapperVersions" -> res.body.bootstrap_versions

\* C19: whatever other calls did while it waited, a call that missed the cache and
\* whose own request succeeds returns what it built from the reply to its own request,
\* not what another call left in the entry.
C19_ReturnsOwnPayload ==
    [][\A p \in Procs :
          ( ResumeStep(p) /\ Succeeds(calls[p], ret'[p].res) )
          => /\ ret'[p].kind = "ok"
             /\ ret'[p].src = "fetch"
             /\ ret'[p].val = OwnPayload(calls[p], ret'[p].res)]_vars

\* Two concurrent calls of getAvailableMods got different replies: each returned the
\* list of its own reply, one of them a list the entry does not hold
C19_Witness ==
    \E p, q \in Procs :
        /\ p # q
        /\ calls[p].pc = "idle" /\ calls[q].pc = "idle"
        /\ calls[p].op = "getAvailableMods" /\ calls[q].op = "getAvailableMods"
        /\ calls[p].issued /\ calls[q].issued
        /\ calls[p].start = calls[q].start
        /\ ret[p].res # ret[q].res
        /\ ret[p].kind = "ok" /\ ret[p].val = ret[p].res.body.mods
        /\ ret[q].kind = "ok" /\ ret[q].val = ret[q].res.body.mods
        /\ ret[p].val # getCache(cachedFetch, AvailableModsID)

---------------------------------------------------------------------------
(* Removal from the overlay: one caller asks for mod A, one for its versions *)
(* while the overlay gains and loses mods with that id; the flag and the    *)
(* overlay functions record themselves in lastCall.                         *)

NextRemoved ==
    \/ \E enable \in BOOLEAN :
          /\ setUseTempMods(enable)
          /\ lastCall' = OverlayCall("setUseTempMods", NoObj, "", NoVersion)
    \/ \E mod \in {"m1", "m2"} :
          /\ addTempMod(mod)
          /\ lastCall' = OverlayCall("addTempMod", mod, tempID(mod), NoVersion)
    \/ /\ removeTempMod("A")
       /\ lastCall' = OverlayCall("removeTempMod", NoObj, "A", NoVersion)
    \/ call_getMod("c1", "A") /\ UNCHANGED lastCall
    \/ call_getModVersions("c2", "A") /\ UNCHANGED lastCall
    \/ \E p \in Procs : Reply(p, QueryLists) /\ UNCHANGED lastCall
    \/ Tick(fetchCooldown + OneSecond) /\ UNCHANGED lastCall

SpecRemoved == Init /\ [][NextRemoved]_vars

\* The last change of the flag or the overlay was removeTempMod(modID), made with the
\* overlay enabled
JustRemoved(modID) ==
    /\ useTempMods
    /\ lastCall.op = "removeTempMod"
    /\ lastCall.modID = modID

\* C20: a call of getMod or getModVersions that is answered from the overlay leaves
\* every cache entry as it was; and once removeTempMod(id) was called with the overlay
\* enabled, a call of getMod(id) or getModVersions(id) that is told by the service
\* that there is no such mod fails with mod-not-found, and a call of getMod that sends
\* no request returns a mod of the service, never a temporary mod.
C20_OverlayNotCached ==
    [][\A p \in Procs :
          /\ ( EndStep(p) /\ ret'[p].src = "overlay" )
             => cachedFetch' = cachedFetch
          /\ ( ResumeStep(p) /\ JustRemoved(calls[p].modID)
               /\ ret'[p].res = Data([getMod |-> <<>>]) )
             => /\ ret'[p].kind = "ModNotFound"
                /\ ret'[p].val = NoData
          /\ ( EndStep(p) /\ ret'[p].src = "cache" /\ calls'[p].op = "getMod" )
             => /\ cachedFetch[RequestID(calls'[p])].set
                /\ ~ret'[p].val.temp]_vars

\* One caller was given the overlay's mod A, from an overlay that held two mods with
\* that id; removeTempMod("A") followed and the other caller's getMod("A"), told by the
\* service that there is no mod A, failed with mod-not-found; nothing is cached for A
C20_Witness ==
    \E p, q \in Procs :
        /\ JustRemoved("A")
        /\ calls[q].pc = "idle" /\ calls[q].op = "getModVersions"
        /\ ret[q].src = "overlay"
        /\ calls[p].pc = "idle" /\ calls[p].op = "getMod" /\ calls[p].issued
        /\ calls[p].start > calls[q].start
        /\ ret[p].res = Data([getMod |-> <<>>])
        /\ ret[p].kind = "ModNotFound"
        /\ ~cachedFetch[ModID_("A")].set
        /\ ~cachedFetch[ModVersionsID("A")].set

====
